---- MODULE Spec2Model ----
(***************************************************************************)
(* Model of module rose.opengl.kernel: the move-only handle `object`, the  *)
(* failure record `error`, and the five `initialize` overloads (buffer,    *)
(* texture, framebuffer, shader, program), run against a backend that      *)
(* issues names, keeps binding points and a set of pending error flags.    *)
(*                                                                         *)
(* One step of the model is one backend call (or one local check) of the   *)
(* code, so that the order of the backend calls is visible in `log`.       *)
(* The backend is the environment: every backend call may raise any error  *)
(* flag, a generate call may or may not write a name, status queries may   *)
(* report any status.  Names are issued fresh (1, 2, ...): a name stands   *)
(* for one issuance.                                                       *)
(***************************************************************************)
EXTENDS Integers, Sequences, FiniteSets, TLC

(***************************************************************************)
(* Bounds of the model.                                                    *)
(***************************************************************************)
\* Names the backend issues in one run.
MaxNames == 3
\* Handle variables the caller of the module owns.
NSlots == 2
\* Width in bits of size_t and GLsizeiptr in the model (64 in the build);
\* the cast of a span length to GLsizeiptr wraps at this width.
SizeBits == 6
\* The frames of the event loop of main, the events polled in a frame.
MaxFrames == 2
MaxEvents == 2

(***************************************************************************)
(* Backend constants.                                                      *)
(***************************************************************************)
GL_NO_ERROR == 0
GL_FALSE == 0
GL_FRAMEBUFFER_COMPLETE == 36053
\* The null data pointer (data pointers are offsets >= 0 into the span).
nullptr == -1
\* GL_INVALID_ENUM, GL_OUT_OF_MEMORY
ErrorCodes == {1280, 1285}
\* GL_FRAMEBUFFER_COMPLETE, GL_FRAMEBUFFER_INCOMPLETE_ATTACHMENT,
\* GL_FRAMEBUFFER_INCOMPLETE_MISSING_ATTACHMENT, 0 (the query failed)
FramebufferStatuses == {GL_FRAMEBUFFER_COMPLETE, 36054, 36055, 0}
BufferTypes == {"GL_ARRAY_BUFFER", "GL_ELEMENT_ARRAY_BUFFER"}
Targets == BufferTypes \cup {"GL_TEXTURE_2D", "GL_FRAMEBUFFER"}
Kinds == {"buffer", "texture", "framebuffer", "shader", "program"}
Names == 1..MaxNames
Slots == 1..NSlots

VARIABLES
    pc,          \* position in the innermost active function; "idle": none
    fn,          \* the innermost active function ("none" when idle)
    stage,       \* "vertex"/"fragment": the shader call made by program
    argument,    \* the parameter record the caller passed to the top-level call
    parameters,  \* the callee's copy of it (passed by value; texture changes it)
    result,      \* local `result` of the innermost function (its handle)
    size,        \* local `size` (buffer: GLsizeiptr; texture: level bytes)
    i,           \* texture: the mip loop counter
    pixel_data,  \* texture: local `pixel_data`
    vertex_shader,   \* program: local expected<shader, error>
    fragment_shader, \* program: local expected<shader, error>
    retval,      \* the expected<> under construction for the return
    faults,      \* backend: the error flags its calls can raise in this run
    errors,      \* backend: the error flags that are set
    bound,       \* backend: binding point -> name bound (0: unbound)
    issued,      \* backend: issued[n] is the kind of name n
    deleted,     \* backend: deleted[n] is the delete calls made for name n
    log,         \* backend calls of the top-level call in progress
    slots,       \* the caller's handle variables
    last,        \* the caller's last operation: <<name, from, to, released>>
    suspended,   \* the frame of a call of another thread that is not running
    main_pc,     \* main(): the position in main
    window,      \* main(): local `window` (nullptr or the SDL_Window)
    context,     \* main(): local `context` (nullptr or the SDL_GLContext)
    should_run,  \* main(): the loop variable
    frames,      \* main(): the frames the event loop has run
    events,      \* main(): the events polled in the frame in progress
    returned,    \* main(): the value returned
    sdl          \* main(): the SDL and GL calls made so far

vars == <<pc, fn, stage, argument, parameters, result, size, i, pixel_data,
          vertex_shader, fragment_shader, retval, faults, errors, bound,
          issued, deleted, log, slots, last, suspended, main_pc, window,
          context, should_run, frames, events, returned, sdl>>

locals == <<size, i, pixel_data>>
entry == <<main_pc, window, context, should_run, frames, events, returned,
           sdl>>
caller == <<argument, slots, last, suspended, entry>>
program_locals == <<vertex_shader, fragment_shader>>
backend == <<faults, errors, bound, issued, deleted, log>>

(***************************************************************************)
(* error, std::expected.                                                   *)
(***************************************************************************)
error(line, code) == [ok |-> FALSE, handle |-> 0, line |-> line, code |-> code]
expected(handle) == [ok |-> TRUE, handle |-> handle, line |-> 0, code |-> 0]
NoValue == [ok |-> FALSE, handle |-> 0, line |-> 0, code |-> 0]

(***************************************************************************)
(* object<Deleter>.                                                        *)
(***************************************************************************)
\* The backend delete operation bound to each kind of handle.
Deleter(kind) ==
    CASE kind = "buffer" -> "glDeleteBuffers"
      [] kind = "texture" -> "glDeleteTextures"
      [] kind = "framebuffer" -> "glDeleteFramebuffers"
      [] kind = "shader" -> "glDeleteShader"
      [] kind = "program" -> "glDeleteProgram"

\* ~object with the guard forgotten: the delete is issued for no handle.
Destructor_Leak(kind, handle) == <<>>

\* ~object(): the delete calls the destructor issues for `handle`.
Destructor(kind, handle) ==
    IF handle # 0 THEN <<Deleter(kind)>> ELSE <<>>

\* object(object&&) copying the handle instead of exchanging it.
Exchange_Copy(handle) == handle

\* object(object&& other): what std::exchange(other.handle, 0) leaves in other.
Exchange(handle) == 0

(***************************************************************************)
(* The backend.                                                            *)
(***************************************************************************)
Call(op, s, a, b, c, d) == [op |-> op, s |-> s, a |-> a, b |-> b, c |-> c, d |-> d]

\* What a backend call may raise.
Inject == {GL_NO_ERROR} \cup faults

Raise(e) ==
    /\ errors' = IF e = GL_NO_ERROR THEN errors ELSE errors \cup {e}
    /\ faults' = faults

\* The values glGetError may return: one of the flags set, else GL_NO_ERROR.
Pending == IF errors = {} THEN {GL_NO_ERROR} ELSE errors

\* glGetError returning `code`: the flag is reset.
glGetError(code) ==
    /\ code \in Pending
    /\ errors' = errors \ {code}
    /\ faults' = faults
    /\ log' = Append(log, Call("glGetError", "", 0, 0, 0, 0))

\* The destructor of a handle of `kind` run on the backend.
Deleted(kind, handle) ==
    IF Destructor(kind, handle) = <<>> THEN deleted
    ELSE [deleted EXCEPT ![handle] = @ \o Destructor(kind, handle)]

DeleteLog(kind, handle) ==
    [k \in 1..Len(Destructor(kind, handle)) |->
        Call(Destructor(kind, handle)[k], "", handle, 0, 0, 0)]

\* Names not yet issued that the backend can still issue.
CanIssue(n) == Len(issued) + n <= MaxNames
Fresh == Len(issued) + 1

(***************************************************************************)
(* Initial state: no call in progress, a clean backend, no handles.        *)
(***************************************************************************)
NoParameters == [none |-> 0]
NoOp == <<"none", 0, 0, 0>>
NoSlot == [live |-> FALSE, kind |-> "none", handle |-> 0]

\* The frame of a thread that is in no call of initialize.
NoFrame ==
    [pc |-> "idle", fn |-> "none", stage |-> "none",
     argument |-> NoParameters, parameters |-> NoParameters, result |-> 0,
     size |-> 0, i |-> 0, pixel_data |-> nullptr, vertex_shader |-> NoValue,
     fragment_shader |-> NoValue, retval |-> NoValue, log |-> <<>>]

InitWith(Faults, Flags) ==
    /\ faults \in Faults
    /\ errors \in Flags
    /\ pc = "idle"
    /\ fn = "none"
    /\ stage = "none"
    /\ argument = NoParameters
    /\ parameters = NoParameters
    /\ result = 0
    /\ size = 0
    /\ i = 0
    /\ pixel_data = nullptr
    /\ vertex_shader = NoValue
    /\ fragment_shader = NoValue
    /\ retval = NoValue
    /\ bound = [t \in Targets |-> 0]
    /\ issued = <<>>
    /\ deleted = [n \in Names |-> <<>>]
    /\ log = <<>>
    /\ slots = [s \in Slots |-> NoSlot]
    /\ last = NoOp
    /\ suspended = NoFrame
    /\ main_pc = "start"
    /\ window = nullptr
    /\ context = nullptr
    /\ should_run = FALSE
    /\ frames = 0
    /\ events = 0
    /\ returned = "none"
    /\ sdl = <<>>


(***************************************************************************)
(* Integer conversions.                                                    *)
(***************************************************************************)
\* The cast taken for the identity: the length is never seen as negative.
ToGLsizeiptr_NoWrap(n) == n

\* static_cast<GLsizeiptr>(n) of a size_t n: two's complement at SizeBits.
ToGLsizeiptr(n) == IF n < 2^(SizeBits - 1) THEN n ELSE n - 2^SizeBits

\* static_cast<size_t>(v) of a GLsizeiptr v.
ToSizeT(v) == v % (2^SizeBits)

\* The largest span length (SIZE_MAX) and the largest GLsizeiptr.
SizeMax == 2^SizeBits - 1
SizeiptrMax == 2^(SizeBits - 1) - 1

(***************************************************************************)
(* Steps shared by the initialize overloads.                               *)
(***************************************************************************)
KindOf(f) == f

FreeSlots == {s \in Slots : ~slots[s].live}

\* A function without the guard: no exit unbinds.
Leave_Unguarded(guard) == "exit_result"

\* Leaving buffer, texture or framebuffer initialize: the destructors run in
\* reverse order of construction, ~guard() first when `_` was constructed,
\* then ~object() of `result`.
Leave(guard) == IF guard THEN "exit_guard" ELSE "exit_result"

\* A top-level call of initialize(p): the function f that runs first is
\* entered (program enters the shader function at once, for stage st).
Begin(f, st, p) ==
    /\ pc = "idle"
    /\ FreeSlots # {}
    /\ CanIssue(IF st = "none" THEN 1 ELSE 3)
    /\ fn' = f
    /\ pc' = "discard"
    /\ stage' = st
    /\ argument' = p
    /\ parameters' = p
    /\ result' = 0
    /\ size' = 0
    /\ i' = 0
    /\ pixel_data' = nullptr
    /\ vertex_shader' = NoValue
    /\ fragment_shader' = NoValue
    /\ retval' = NoValue
    /\ log' = <<>>
    /\ last' = <<"call", 0, 0, 0>>
    /\ UNCHANGED <<suspended, entry>>
    /\ UNCHANGED <<faults, errors, bound, issued, deleted, slots>>

\* The step that follows discard_errors() in each function.
AfterDiscard ==
    CASE fn = "buffer" -> "size"
      [] fn = "texture" -> "check"
      [] fn = "framebuffer" -> "gen"
      [] fn = "shader" -> "create"

\* The loop taken for a single read.
Again_Once(code) == FALSE

\* The loop with the test inverted: while(glGetError() == GL_NO_ERROR).
Again_Inverted(code) == code = GL_NO_ERROR

\* while(glGetError() != GL_NO_ERROR): the loop reads again.
Again(code) == code # GL_NO_ERROR

\* discard_errors(): one iteration of while(glGetError() != GL_NO_ERROR).
discard_errors ==
    /\ pc = "discard"
    /\ \E code \in Pending :
        /\ glGetError(code)
        /\ pc' = IF Again(code) THEN "discard" ELSE AfterDiscard
    /\ UNCHANGED <<fn, stage, parameters, result, locals, program_locals,
                   retval, bound, issued, deleted, caller>>

\* auto result = K{}; glGenK(1, &(result.handle)): the backend writes a
\* fresh name or leaves the handle at 0, and may raise an error flag.
Generate(kind, op) ==
    /\ pc = "gen"
    /\ \E issue \in BOOLEAN, e \in Inject :
        /\ issue => CanIssue(1)
        /\ result' = IF issue THEN Fresh ELSE 0
        /\ issued' = IF issue THEN Append(issued, kind) ELSE issued
        /\ Raise(e)
        /\ log' = Append(log, Call(op, "", result', 0, 0, 0))
    /\ pc' = "gen_error"
    /\ UNCHANGED <<fn, stage, parameters, locals, program_locals, retval,
                   bound, deleted, caller>>

\* if(auto code = glGetError(); code != GL_NO_ERROR) return unexpected at
\* `line`; the guard is not constructed yet, `result` is destroyed.
GenerateError(line) ==
    /\ pc = "gen_error"
    /\ \E code \in Pending :
        /\ glGetError(code)
        /\ IF code # GL_NO_ERROR
           THEN retval' = error(line, code) /\ pc' = Leave(FALSE)
           ELSE retval' = retval /\ pc' = "bind"
    /\ UNCHANGED <<fn, stage, parameters, result, locals, program_locals,
                   bound, issued, deleted, caller>>

\* The bind call made with name 0: nothing is bound for the upload.
Bind_Zero(op, target, name, next) ==
    /\ \E e \in Inject : Raise(e)
    /\ bound' = [bound EXCEPT ![target] = 0]
    /\ log' = Append(log, Call(op, target, 0, 0, 0, 0))
    /\ pc' = next
    /\ UNCHANGED <<fn, stage, parameters, result, locals, program_locals,
                   retval, issued, deleted, caller>>

\* glBindK(target, name).
Bind(op, target, name, next) ==
    /\ \E e \in Inject : Raise(e)
    /\ bound' = [bound EXCEPT ![target] = name]
    /\ log' = Append(log, Call(op, target, name, 0, 0, 0))
    /\ pc' = next
    /\ UNCHANGED <<fn, stage, parameters, result, locals, program_locals,
                   retval, issued, deleted, caller>>

\* return result: the expected<> is move-constructed from `result`.
ReturnResult ==
    /\ retval' = expected(result)
    /\ result' = Exchange(result)

\* ~guard() of the function that is returning: the binding point it guards.
GuardOp ==
    CASE fn = "buffer" -> "glBindBuffer"
      [] fn = "texture" -> "glBindTexture"
      [] fn = "framebuffer" -> "glBindFramebuffer"

GuardTarget ==
    CASE fn = "buffer" -> parameters.type
      [] fn = "texture" -> "GL_TEXTURE_2D"
      [] fn = "framebuffer" -> "GL_FRAMEBUFFER"

\* Leaving the scope of guard `_`: the binding point is unbound.
ExitGuard ==
    /\ pc = "exit_guard"
    /\ fn \in {"buffer", "texture", "framebuffer"}
    /\ Bind(GuardOp, GuardTarget, 0, "exit_result")

\* Leaving the scope of `result`: ~object().
ExitResult ==
    /\ pc = "exit_result"
    /\ fn \in {"buffer", "texture", "framebuffer", "shader"}
    /\ deleted' = Deleted(KindOf(fn), result)
    /\ log' = log \o DeleteLog(KindOf(fn), result)
    /\ \E e \in Inject :
        /\ (Destructor(KindOf(fn), result) = <<>>) => e = GL_NO_ERROR
        /\ Raise(e)
    /\ result' = 0
    /\ pc' = "ret"
    /\ UNCHANGED <<fn, stage, parameters, locals, program_locals, retval,
                   bound, issued, caller>>

\* The top-level call returns: the caller's variable holds the handle of a
\* success, and the frame of the call is gone.
Return ==
    /\ pc = "ret"
    /\ stage = "none"
    /\ slots' = IF retval.ok
                THEN [slots EXCEPT
                        ![CHOOSE s \in FreeSlots : \A t \in FreeSlots : s <= t] =
                            [live |-> TRUE, kind |-> KindOf(fn),
                             handle |-> retval.handle]]
                ELSE slots
    /\ pc' = "idle"
    /\ fn' = "none"
    /\ argument' = NoParameters
    /\ parameters' = NoParameters
    /\ result' = 0
    /\ size' = 0
    /\ i' = 0
    /\ pixel_data' = nullptr
    /\ retval' = NoValue
    /\ log' = <<>>
    /\ UNCHANGED <<stage, program_locals, faults, errors, bound, issued, deleted,
                   last, suspended, entry>>

(***************************************************************************)
(* initialize(buffer_parameters).                                          *)
(***************************************************************************)
BufferCall(Types, Sizes) ==
    \E type \in Types, bytes \in Sizes :
        Begin("buffer", "none",
              [type |-> type, usage |-> "GL_STATIC_DRAW",
               bytes |-> [data |-> 0, size |-> bytes]])

\* The check with < for <=: an empty span passes.
InvalidBufferSize_AllowEmpty(size_, bytes) ==
    (size_ < 0) \/ (ToSizeT(size_) # bytes)

\* if((size <= 0) || (static_cast<std::size_t>(size) != bytes.size())).
InvalidBufferSize(size_, bytes) ==
    (size_ <= 0) \/ (ToSizeT(size_) # bytes)

\* auto size = static_cast<GLsizeiptr>(parameters.bytes.size()); the check.
BufferSize ==
    /\ pc = "size"
    /\ fn = "buffer"
    /\ size' = ToGLsizeiptr(parameters.bytes.size)
    /\ IF InvalidBufferSize(size', parameters.bytes.size)
       THEN retval' = error(125, 0) /\ pc' = "ret"
       ELSE retval' = retval /\ pc' = "gen"
    /\ UNCHANGED <<fn, stage, parameters, result, i, pixel_data,
                   program_locals, backend, caller>>

BufferGenerate == fn = "buffer" /\ Generate("buffer", "glGenBuffers")

BufferGenerateError == fn = "buffer" /\ GenerateError(134)

BufferBind ==
    /\ pc = "bind"
    /\ fn = "buffer"
    /\ Bind("glBindBuffer", parameters.type, result, "data")

\* glBufferData(parameters.type, size, parameters.bytes.data(), usage): the
\* data store is created for the buffer bound to the target (logged as c).
BufferData ==
    /\ pc = "data"
    /\ fn = "buffer"
    /\ \E e \in Inject : Raise(e)
    /\ log' = Append(log, Call("glBufferData", parameters.type, size,
                               parameters.bytes.data,
                               bound[parameters.type], 0))
    /\ pc' = "data_error"
    /\ UNCHANGED <<fn, stage, parameters, result, locals, program_locals,
                   retval, bound, issued, deleted, caller>>

BufferDataError ==
    /\ pc = "data_error"
    /\ fn = "buffer"
    /\ \E code \in Pending :
        /\ glGetError(code)
        /\ IF code # GL_NO_ERROR
           THEN retval' = error(153, code) /\ result' = result
           ELSE ReturnResult
    /\ pc' = Leave(TRUE)
    /\ UNCHANGED <<fn, stage, parameters, locals, program_locals,
                   bound, issued, deleted, caller>>

(***************************************************************************)
(* initialize(texture_parameters).                                         *)
(***************************************************************************)
\* The check with > for >=: 16384 passes.
InvalidTextureParameters_OffByOne(width, height, mipmap_count) ==
    \/ ((width <= 0) \/ (width > 16384))
    \/ ((height <= 0) \/ (height > 16384))
    \/ ((mipmap_count <= 0) \/ (mipmap_count > 16384))

\* The check of the texture parameters (true: the call fails locally).
InvalidTextureParameters(width, height, mipmap_count) ==
    \/ ((width <= 0) \/ (width >= 16384))
    \/ ((height <= 0) \/ (height >= 16384))
    \/ ((mipmap_count <= 0) \/ (mipmap_count >= 16384))

\* std::min, std::max.
min(a, b) == IF b < a THEN b ELSE a
max(a, b) == IF a < b THEN b ELSE a

\* std::span::subspan(offset).
subspan(span, offset) ==
    [data |-> span.data + offset, size |-> span.size - offset]

\* The byte size of a mip level: parameters.width * parameters.height * 4.
LevelSize(width, height) == width * height * 4

\* The conversion that keeps the low 16 bits only.
ToGLuint_Short(n) == <<0, n % 65536>>

\* static_cast<GLuint>(n) of an int n: the 32 bits of n in two's complement,
\* as <<high 16 bits, low 16 bits>>.
ToGLuint(n) == <<(n \div 65536) % 65536, n % 65536>>

\* u > n for a GLuint u and a size_t n (after the usual conversion of u).
GreaterThan(u, n) ==
    \/ u[1] > n \div 65536
    \/ u[1] = n \div 65536 /\ u[2] > n % 65536

\* The comparison with >= for >: a level that takes all the bytes left gets
\* no data.
PixelData_Strict(pixels, bytes) ==
    IF bytes >= pixels.size THEN nullptr ELSE pixels.data

\* The data pointer passed for a level of `bytes` bytes out of `pixels`:
\* if(static_cast<GLuint>(size) > parameters.pixels.size()) nullptr.
PixelData(pixels, bytes) ==
    IF GreaterThan(ToGLuint(bytes), pixels.size) THEN nullptr ELSE pixels.data

\* A level that gets no data leaves the span as it is.
NextPixels_Keep(pixels, bytes) ==
    IF bytes > pixels.size THEN pixels ELSE subspan(pixels, bytes)

\* The span left for the next mip level.
NextPixels(pixels, bytes) == subspan(pixels, min(pixels.size, bytes))

\* The halving without the floor of 1.
NextExtent_NoFloor(extent) == extent \div 2

\* The extent of the next mip level.
NextExtent(extent) == max(1, extent \div 2)

\* The parameter records with the given extents, level counts and lengths
\* of the pixel span.
TextureParameters(Widths, Heights, Counts, Sizes) ==
    {[width |-> width, height |-> height, mipmap_count |-> mipmap_count,
      pixels |-> [data |-> 0, size |-> bytes]] :
        width \in Widths, height \in Heights, mipmap_count \in Counts,
        bytes \in Sizes}

TextureCall(Arguments) ==
    \E p \in Arguments : Begin("texture", "none", p)

TextureCheck ==
    /\ pc = "check"
    /\ fn = "texture"
    /\ IF InvalidTextureParameters(parameters.width, parameters.height,
                                   parameters.mipmap_count)
       THEN retval' = error(201, 0) /\ pc' = "ret"
       ELSE retval' = retval /\ pc' = "gen"
    /\ UNCHANGED <<fn, stage, parameters, result, locals, program_locals,
                   backend, caller>>

TextureGenerate == fn = "texture" /\ Generate("texture", "glGenTextures")

TextureGenerateError == fn = "texture" /\ GenerateError(210)

TextureBind ==
    /\ pc = "bind"
    /\ fn = "texture"
    /\ Bind("glBindTexture", "GL_TEXTURE_2D", result, "bind_error")

TextureBindError ==
    /\ pc = "bind_error"
    /\ fn = "texture"
    /\ \E code \in Pending :
        /\ glGetError(code)
        /\ IF code # GL_NO_ERROR
           THEN retval' = error(225, code) /\ pc' = Leave(TRUE)
           ELSE retval' = retval /\ pc' = "loop"
    /\ UNCHANGED <<fn, stage, parameters, result, locals, program_locals,
                   bound, issued, deleted, caller>>

\* One iteration of the mip loop up to glTexImage2D.
TextureImage ==
    /\ pc = "loop"
    /\ fn = "texture"
    /\ i # parameters.mipmap_count
    /\ size' = LevelSize(parameters.width, parameters.height)
    /\ pixel_data' = PixelData(parameters.pixels, size')
    /\ \E e \in Inject : Raise(e)
    /\ log' = Append(log, Call("glTexImage2D", "GL_TEXTURE_2D", i,
                               parameters.width, parameters.height,
                               pixel_data'))
    /\ pc' = "image_error"
    /\ UNCHANGED <<fn, stage, parameters, result, i, program_locals, retval,
                   bound, issued, deleted, caller>>

\* The error check of the iteration, and the step to the next level.
TextureImageError ==
    /\ pc = "image_error"
    /\ fn = "texture"
    /\ \E code \in Pending :
        /\ glGetError(code)
        /\ IF code # GL_NO_ERROR
           THEN /\ retval' = error(245, code)
                /\ pc' = Leave(TRUE)
                /\ UNCHANGED <<parameters, i>>
           ELSE /\ parameters' =
                    [parameters EXCEPT
                        !.pixels = NextPixels(@, size),
                        !.width = NextExtent(@),
                        !.height = NextExtent(@)]
                /\ i' = i + 1
                /\ pc' = "loop"
                /\ retval' = retval
    /\ UNCHANGED <<fn, stage, result, size, pixel_data, program_locals,
                   bound, issued, deleted, caller>>

\* The loop ends: return result.
TextureReturn ==
    /\ pc = "loop"
    /\ fn = "texture"
    /\ i = parameters.mipmap_count
    /\ ReturnResult
    /\ pc' = Leave(TRUE)
    /\ UNCHANGED <<fn, stage, parameters, locals, program_locals,
                   backend, caller>>

(***************************************************************************)
(* initialize(framebuffer_parameters).                                     *)
(***************************************************************************)
FramebufferCall(RenderTargets, DepthBuffers) ==
    \E render_target \in RenderTargets, depth_buffer \in DepthBuffers :
        Begin("framebuffer", "none",
              [render_target |-> render_target,
               depth_buffer |-> depth_buffer])

FramebufferGenerate ==
    fn = "framebuffer" /\ Generate("framebuffer", "glGenFramebuffers")

FramebufferGenerateError == fn = "framebuffer" /\ GenerateError(301)

FramebufferBind ==
    /\ pc = "bind"
    /\ fn = "framebuffer"
    /\ Bind("glBindFramebuffer", "GL_FRAMEBUFFER", result, "attach_color")

\* The attachment made without the test of the handle.
Attach_Always(attachment, texture, next) ==
    /\ \E e \in Inject : Raise(e)
    /\ log' = Append(log, Call("glFramebufferTexture2D", attachment,
                               texture, 0, 0, 0))
    /\ pc' = next
    /\ UNCHANGED <<fn, stage, parameters, result, locals, program_locals,
                   retval, bound, issued, deleted, caller>>

\* if(texture != 0) glFramebufferTexture2D(GL_FRAMEBUFFER, attachment, ...).
Attach(attachment, texture, next) ==
    /\ IF texture # 0
       THEN /\ \E e \in Inject : Raise(e)
            /\ log' = Append(log, Call("glFramebufferTexture2D", attachment,
                                       texture, 0, 0, 0))
       ELSE UNCHANGED <<faults, errors, log>>
    /\ pc' = next
    /\ UNCHANGED <<fn, stage, parameters, result, locals, program_locals,
                   retval, bound, issued, deleted, caller>>

FramebufferAttachColor ==
    /\ pc = "attach_color"
    /\ fn = "framebuffer"
    /\ Attach("GL_COLOR_ATTACHMENT0", parameters.render_target, "attach_depth")

FramebufferAttachDepth ==
    /\ pc = "attach_depth"
    /\ fn = "framebuffer"
    /\ Attach("GL_DEPTH_ATTACHMENT", parameters.depth_buffer, "status")

\* The generic code in place of the status.
StatusCode_Generic(status) == 0

\* error{__LINE__, status}: the GLenum status as the long long code.
StatusCode(status) == status

FramebufferStatus ==
    /\ pc = "status"
    /\ fn = "framebuffer"
    /\ \E status \in FramebufferStatuses, e \in Inject :
        /\ Raise(e)
        /\ log' = Append(log, Call("glCheckFramebufferStatus",
                                   "GL_FRAMEBUFFER", status, 0, 0, 0))
        /\ IF status # GL_FRAMEBUFFER_COMPLETE
           THEN retval' = error(329, StatusCode(status)) /\ pc' = Leave(TRUE)
           ELSE retval' = retval /\ pc' = "error"
    /\ UNCHANGED <<fn, stage, parameters, result, locals, program_locals,
                   bound, issued, deleted, caller>>

FramebufferError ==
    /\ pc = "error"
    /\ fn = "framebuffer"
    /\ \E code \in Pending :
        /\ glGetError(code)
        /\ IF code # GL_NO_ERROR
           THEN retval' = error(334, code) /\ result' = result
           ELSE ReturnResult
    /\ pc' = Leave(TRUE)
    /\ UNCHANGED <<fn, stage, parameters, locals, program_locals,
                   bound, issued, deleted, caller>>

(***************************************************************************)
(* initialize(shader_parameters).                                          *)
(***************************************************************************)
ShaderTypes == {"GL_VERTEX_SHADER", "GL_FRAGMENT_SHADER"}

\* parameters.type of the shader call in progress.
ShaderType ==
    CASE stage = "vertex" -> "GL_VERTEX_SHADER"
      [] stage = "fragment" -> "GL_FRAGMENT_SHADER"
      [] OTHER -> parameters.type

ShaderCall ==
    \E type \in ShaderTypes :
        Begin("shader", "none", [type |-> type, code |-> "source"])

\* A backend call on the shader or program `result` that returns nothing.
Plain(op, s, a, b, next) ==
    /\ \E e \in Inject : Raise(e)
    /\ log' = Append(log, Call(op, s, a, b, 0, 0))
    /\ pc' = next
    /\ UNCHANGED <<fn, stage, parameters, result, locals, program_locals,
                   retval, bound, issued, deleted, caller>>

\* The failure reported with an error code of the backend.
LocalFailure_Coded(line) == error(line, 1280)

\* return std::unexpected{error{__LINE__, 0}}: a local validation failure.
LocalFailure(line) == error(line, 0)

\* auto result = shader{glCreateShader(parameters.type)}; the check.
ShaderCreate ==
    /\ pc = "create"
    /\ fn = "shader"
    /\ \E issue \in BOOLEAN, e \in Inject :
        /\ issue => CanIssue(1)
        /\ result' = IF issue THEN Fresh ELSE 0
        /\ issued' = IF issue THEN Append(issued, "shader") ELSE issued
        /\ Raise(e)
        /\ log' = Append(log, Call("glCreateShader", ShaderType, result',
                                   0, 0, 0))
    /\ IF result' = 0
       THEN retval' = LocalFailure(378) /\ pc' = "exit_result"
       ELSE retval' = retval /\ pc' = "source"
    /\ UNCHANGED <<fn, stage, parameters, locals, program_locals, bound,
                   deleted, caller>>

ShaderSource ==
    /\ pc = "source"
    /\ fn = "shader"
    /\ Plain("glShaderSource", ShaderType, result, 0, "compile")

ShaderCompile ==
    /\ pc = "compile"
    /\ fn = "shader"
    /\ Plain("glCompileShader", ShaderType, result, 0, "status")

\* glGetShaderiv(result, GL_COMPILE_STATUS, &succeeded); the check.
ShaderStatus ==
    /\ pc = "status"
    /\ fn = "shader"
    /\ \E succeeded \in BOOLEAN, e \in Inject :
        /\ Raise(e)
        /\ log' = Append(log, Call("glGetShaderiv", ShaderType, result,
                                   IF succeeded THEN 1 ELSE GL_FALSE, 0, 0))
        /\ IF ~succeeded
           THEN retval' = LocalFailure(388) /\ pc' = "exit_result"
           ELSE retval' = retval /\ pc' = "error"
    /\ UNCHANGED <<fn, stage, parameters, result, locals, program_locals,
                   bound, issued, deleted, caller>>

ShaderError ==
    /\ pc = "error"
    /\ fn = "shader"
    /\ \E code \in Pending :
        /\ glGetError(code)
        /\ IF code # GL_NO_ERROR
           THEN retval' = error(394, code) /\ result' = result
           ELSE ReturnResult
    /\ pc' = "exit_result"
    /\ UNCHANGED <<fn, stage, parameters, locals, program_locals,
                   bound, issued, deleted, caller>>

(***************************************************************************)
(* initialize(program_parameters).                                         *)
(***************************************************************************)
\* The call: initialize(shader_parameters) is called for the vertex shader.
ProgramCall ==
    Begin("shader", "vertex",
          [codes |-> [vertex_shader |-> "vertex source",
                      fragment_shader |-> "fragment source"]])

\* The test taken for passed: the function goes on after a failure.
Failed_Never(value) == FALSE

\* if(!vertex_shader), if(!fragment_shader): the expected<> holds an error.
Failed(value) == ~value.ok

\* The record returned with the line of the return statement and no code.
Unexpected_Relabelled(value, line) == error(line, 0)

\* return std::unexpected{value.error()} at `line`: the error is copied.
Unexpected(value, line) == error(value.line, value.code)

\* The vertex shader call returned into `vertex_shader`; on failure the
\* record is returned, else initialize(shader_parameters) is called for the
\* fragment shader.
ProgramVertexShader ==
    /\ pc = "ret"
    /\ stage = "vertex"
    /\ vertex_shader' = retval
    /\ IF Failed(retval)
       THEN /\ retval' = Unexpected(retval, 438)
            /\ fn' = "program"
            /\ stage' = "none"
            /\ pc' = "exit_vertex"
       ELSE /\ retval' = NoValue
            /\ fn' = "shader"
            /\ stage' = "fragment"
            /\ pc' = "discard"
    /\ UNCHANGED <<parameters, result, locals, fragment_shader, backend,
                   caller>>

\* The fragment shader call returned into `fragment_shader`.
ProgramFragmentShader ==
    /\ pc = "ret"
    /\ stage = "fragment"
    /\ fragment_shader' = retval
    /\ fn' = "program"
    /\ stage' = "none"
    /\ IF Failed(retval)
       THEN retval' = Unexpected(retval, 446) /\ pc' = "exit_fragment"
       ELSE retval' = NoValue /\ pc' = "create"
    /\ UNCHANGED <<parameters, result, locals, vertex_shader, backend,
                   caller>>

\* auto result = program{glCreateProgram()}; the check.
ProgramCreate ==
    /\ pc = "create"
    /\ fn = "program"
    /\ \E issue \in BOOLEAN, e \in Inject :
        /\ issue => CanIssue(1)
        /\ result' = IF issue THEN Fresh ELSE 0
        /\ issued' = IF issue THEN Append(issued, "program") ELSE issued
        /\ Raise(e)
        /\ log' = Append(log, Call("glCreateProgram", "", result', 0, 0, 0))
    /\ IF result' = 0
       THEN retval' = error(452, 0) /\ pc' = "exit_result"
       ELSE retval' = retval /\ pc' = "attach_vertex"
    /\ UNCHANGED <<fn, stage, parameters, locals, program_locals, bound,
                   deleted, caller>>

ProgramAttachVertex ==
    /\ pc = "attach_vertex"
    /\ fn = "program"
    /\ Plain("glAttachShader", "", result, vertex_shader.handle,
             "attach_fragment")

ProgramAttachFragment ==
    /\ pc = "attach_fragment"
    /\ fn = "program"
    /\ Plain("glAttachShader", "", result, fragment_shader.handle, "link")

ProgramLink ==
    /\ pc = "link"
    /\ fn = "program"
    /\ Plain("glLinkProgram", "", result, 0, "status")

\* glGetProgramiv(result, GL_LINK_STATUS, &succeeded); the check.
ProgramStatus ==
    /\ pc = "status"
    /\ fn = "program"
    /\ \E succeeded \in BOOLEAN, e \in Inject :
        /\ Raise(e)
        /\ log' = Append(log, Call("glGetProgramiv", "", result,
                                   IF succeeded THEN 1 ELSE GL_FALSE, 0, 0))
        /\ IF ~succeeded
           THEN retval' = error(463, 0) /\ pc' = "exit_result"
           ELSE retval' = retval /\ pc' = "error"
    /\ UNCHANGED <<fn, stage, parameters, result, locals, program_locals,
                   bound, issued, deleted, caller>>

ProgramError ==
    /\ pc = "error"
    /\ fn = "program"
    /\ \E code \in Pending :
        /\ glGetError(code)
        /\ IF code # GL_NO_ERROR
           THEN retval' = error(469, code) /\ result' = result
           ELSE ReturnResult
    /\ pc' = "exit_result"
    /\ UNCHANGED <<fn, stage, parameters, locals, program_locals,
                   bound, issued, deleted, caller>>

\* Leaving the scope of `result` (the program handle).
ProgramExitResult ==
    /\ pc = "exit_result"
    /\ fn = "program"
    /\ deleted' = Deleted("program", result)
    /\ log' = log \o DeleteLog("program", result)
    /\ \E e \in Inject :
        /\ (Destructor("program", result) = <<>>) => e = GL_NO_ERROR
        /\ Raise(e)
    /\ result' = 0
    /\ pc' = "exit_fragment"
    /\ UNCHANGED <<fn, stage, parameters, locals, program_locals, retval,
                   bound, issued, caller>>

\* Leaving the scope of `fragment_shader`: ~expected<shader, error>.
ProgramExitFragment ==
    /\ pc = "exit_fragment"
    /\ fn = "program"
    /\ deleted' = Deleted("shader", fragment_shader.handle)
    /\ log' = log \o DeleteLog("shader", fragment_shader.handle)
    /\ \E e \in Inject :
        /\ (Destructor("shader", fragment_shader.handle) = <<>>)
                => e = GL_NO_ERROR
        /\ Raise(e)
    /\ fragment_shader' = NoValue
    /\ pc' = "exit_vertex"
    /\ UNCHANGED <<fn, stage, parameters, result, locals, vertex_shader,
                   retval, bound, issued, caller>>

\* Leaving the scope of `vertex_shader`: ~expected<shader, error>.
ProgramExitVertex ==
    /\ pc = "exit_vertex"
    /\ fn = "program"
    /\ deleted' = Deleted("shader", vertex_shader.handle)
    /\ log' = log \o DeleteLog("shader", vertex_shader.handle)
    /\ \E e \in Inject :
        /\ (Destructor("shader", vertex_shader.handle) = <<>>)
                => e = GL_NO_ERROR
        /\ Raise(e)
    /\ vertex_shader' = NoValue
    /\ pc' = "ret"
    /\ UNCHANGED <<fn, stage, parameters, result, locals, fragment_shader,
                   retval, bound, issued, caller>>

(***************************************************************************)
(* The caller's handles: move construction, move assignment, destruction.  *)
(***************************************************************************)
\* object b{std::move(a)}: slot `to` is a new object constructed from `from`.
MoveConstruct(from, to) ==
    /\ pc = "idle"
    /\ slots[from].live
    /\ ~slots[to].live
    /\ slots' = [slots EXCEPT
                    ![to] = [live |-> TRUE, kind |-> slots[from].kind,
                             handle |-> slots[from].handle],
                    ![from].handle = Exchange(@)]
    /\ last' = <<"construct", from, to, 0>>
    /\ UNCHANGED <<suspended, entry>>
    /\ UNCHANGED <<pc, fn, stage, argument, parameters, result, locals,
                   program_locals, retval, backend>>

\* operator=(object other) with the old handle dropped: plain assignment
\* in place of the swap, `other` is left empty.
Other_Dropped(from, to) == 0

\* The handle the parameter `other` of operator= holds after the swap:
\* `other` is move-constructed from `from`, then swapped with `to`.
Other(from, to) ==
    LET moved == [slots EXCEPT ![from].handle = Exchange(@)]
    IN  moved[to].handle

\* The handles after `to = std::move(from)`.
Assigned(from, to) ==
    LET moved == [slots EXCEPT ![from].handle = Exchange(@)]
    IN  [moved EXCEPT ![to].handle = slots[from].handle]

\* to = std::move(from): operator=(object other), swap, ~other.
MoveAssign(from, to) ==
    /\ pc = "idle"
    /\ slots[from].live
    /\ slots[to].live
    /\ slots[from].kind = slots[to].kind
    /\ slots' = Assigned(from, to)
    /\ deleted' = Deleted(slots[to].kind, Other(from, to))
    /\ \E e \in Inject :
        /\ (Destructor(slots[to].kind, Other(from, to)) = <<>>)
                => e = GL_NO_ERROR
        /\ Raise(e)
    /\ last' = <<"assign", from, to, Other(from, to)>>
    /\ UNCHANGED <<suspended, entry>>
    /\ UNCHANGED <<pc, fn, stage, argument, parameters, result, locals,
                   program_locals, retval, bound, issued, log>>

\* The handle variable goes out of scope: ~object().
Destroy(s) ==
    /\ pc = "idle"
    /\ slots[s].live
    /\ slots' = [slots EXCEPT ![s] = NoSlot]
    /\ deleted' = Deleted(slots[s].kind, slots[s].handle)
    /\ \E e \in Inject :
        /\ (Destructor(slots[s].kind, slots[s].handle) = <<>>)
                => e = GL_NO_ERROR
        /\ Raise(e)
    /\ last' = <<"destroy", s, s, slots[s].handle>>
    /\ UNCHANGED <<suspended, entry>>
    /\ UNCHANGED <<pc, fn, stage, argument, parameters, result, locals,
                   program_locals, retval, bound, issued, log>>

(***************************************************************************)
(* The steps of the five functions.                                        *)
(***************************************************************************)
Buffer ==
    \/ BufferSize
    \/ BufferGenerate
    \/ BufferGenerateError
    \/ BufferBind
    \/ BufferData
    \/ BufferDataError

Texture ==
    \/ TextureCheck
    \/ TextureGenerate
    \/ TextureGenerateError
    \/ TextureBind
    \/ TextureBindError
    \/ TextureImage
    \/ TextureImageError
    \/ TextureReturn

Framebuffer ==
    \/ FramebufferGenerate
    \/ FramebufferGenerateError
    \/ FramebufferBind
    \/ FramebufferAttachColor
    \/ FramebufferAttachDepth
    \/ FramebufferStatus
    \/ FramebufferError

Shader ==
    \/ ShaderCreate
    \/ ShaderSource
    \/ ShaderCompile
    \/ ShaderStatus
    \/ ShaderError

Program ==
    \/ ProgramVertexShader
    \/ ProgramFragmentShader
    \/ ProgramCreate
    \/ ProgramAttachVertex
    \/ ProgramAttachFragment
    \/ ProgramLink
    \/ ProgramStatus
    \/ ProgramError
    \/ ProgramExitResult
    \/ ProgramExitFragment
    \/ ProgramExitVertex

Exit ==
    \/ ExitGuard
    \/ ExitResult
    \/ Return

Steps ==
    \/ discard_errors
    \/ Buffer
    \/ Texture
    \/ Framebuffer
    \/ Shader
    \/ Program
    \/ Exit

(***************************************************************************)
(* Spec: the acquisitions.  Each of the five functions is called with      *)
(* every parameter record below on a backend that has issued no name yet,  *)
(* has any set of error flags pending and can raise any flag in any call.  *)
(***************************************************************************)
\* The lengths of the byte spans passed to the buffer function.
BufferSizes == {0, 1, SizeiptrMax, SizeiptrMax + 1, SizeMax}

\* The texture parameters passed: short mip chains with every kind of pixel
\* span (empty, covering some levels, leaving bytes over, covering all),
\* the chains of 256 x 256 and of the largest texture, and the extents and
\* level counts at the edges of the check.
TextureArguments ==
    TextureParameters({1, 5}, {1, 2}, {1, 3}, {0, 12, 46, 48})
        \cup TextureParameters({256}, {256}, {4}, {262144, 348160})
        \cup TextureParameters({16383}, {16383}, {1}, {0, 1073610756})
        \cup TextureParameters({-1, 0, 1, 16383, 16384},
                               {-1, 0, 1, 16383, 16384},
                               {-1, 0, 1, 16384}, {0})

\* The names of the textures passed to the framebuffer function.
TextureNames == {0, 1}

Acquire ==
    /\ issued = <<>>
    /\ \/ BufferCall(BufferTypes, BufferSizes)
       \/ TextureCall(TextureArguments)
       \/ FramebufferCall(TextureNames, TextureNames)
       \/ ShaderCall
       \/ ProgramCall

Init == InitWith({ErrorCodes}, SUBSET ErrorCodes)

Next ==
    \/ Acquire
    \/ Steps

Spec == Init /\ [][Next]_vars

(***************************************************************************)
(* SpecHandles: a caller that acquires handles and keeps, moves, assigns   *)
(* and destroys them, on a backend that raises no error flag (its calls    *)
(* still fail by issuing no name or by reporting a failed status).         *)
(***************************************************************************)
Calls ==
    \/ BufferCall({"GL_ARRAY_BUFFER"}, {1, SizeMax})
    \/ TextureCall(TextureParameters({2}, {0, 2}, {1}, {16}))
    \/ FramebufferCall({1}, {0})
    \/ ShaderCall
    \/ ProgramCall

Handles ==
    \/ \E from \in Slots, to \in Slots : MoveConstruct(from, to)
    \/ \E from \in Slots, to \in Slots : MoveAssign(from, to)
    \/ \E s \in Slots : Destroy(s)

InitHandles == InitWith({{}}, {{}})

NextHandles ==
    \/ Calls
    \/ Steps
    \/ Handles

SpecHandles == InitHandles /\ [][NextHandles]_vars

(***************************************************************************)
(* Acquisitions on a backend that holds error flags raised before the call *)
(* and raises none during it: the calls the function issues all succeed or *)
(* fail by their result (no name, a failed status) only.                   *)
(***************************************************************************)
InitPending == InitWith({{}}, SUBSET ErrorCodes)

SpecPending == InitPending /\ [][Next]_vars

(***************************************************************************)
(* The acquisitions of Spec on a backend whose calls return: the function  *)
(* in progress takes its next step (nothing else runs, the functions are   *)
(* noexcept and wait for nothing but the backend call).                    *)
(***************************************************************************)
SpecLive == Spec /\ WF_vars(Steps)

(***************************************************************************)
(* Two threads that call initialize(buffer_parameters) on one context.     *)
(* The frame variables are those of the running thread; the scheduler may  *)
(* switch to the other thread between any two steps, that is between any   *)
(* two backend calls.  The backend (binding points, names) is shared.      *)
(***************************************************************************)
\* The frame of the running thread.
Frame ==
    [pc |-> pc, fn |-> fn, stage |-> stage, argument |-> argument,
     parameters |-> parameters, result |-> result, size |-> size, i |-> i,
     pixel_data |-> pixel_data, vertex_shader |-> vertex_shader,
     fragment_shader |-> fragment_shader, retval |-> retval, log |-> log]

\* The running thread is suspended and the other thread runs.
Switch ==
    /\ pc # "idle" \/ suspended.pc # "idle"
    /\ suspended' = Frame
    /\ pc' = suspended.pc
    /\ fn' = suspended.fn
    /\ stage' = suspended.stage
    /\ argument' = suspended.argument
    /\ parameters' = suspended.parameters
    /\ result' = suspended.result
    /\ size' = suspended.size
    /\ i' = suspended.i
    /\ pixel_data' = suspended.pixel_data
    /\ vertex_shader' = suspended.vertex_shader
    /\ fragment_shader' = suspended.fragment_shader
    /\ retval' = suspended.retval
    /\ log' = suspended.log
    /\ last' = <<"switch", 0, 0, 0>>
    /\ UNCHANGED <<faults, errors, bound, issued, deleted, slots, entry>>

\* A thread calls initialize(buffer_parameters) for the array buffer target;
\* the caller has a variable for the result of each call in progress.
RaceCalls ==
    /\ Cardinality(FreeSlots) > (IF suspended.pc = "idle" THEN 0 ELSE 1)
    /\ BufferCall({"GL_ARRAY_BUFFER"}, {1})

InitRace == InitWith({{}}, {{}})

NextRace ==
    \/ RaceCalls
    \/ discard_errors
    \/ Buffer
    \/ Exit
    \/ Switch

SpecRace == InitRace /\ [][NextRace]_vars

(***************************************************************************)
(* main (main.cc).  The locals of main are, in order of construction, the  *)
(* guard `_`, `window` and `context`; a return destroys the constructed    *)
(* ones in reverse order.  SDL is the environment: SDL_Init,               *)
(* SDL_CreateWindow, SDL_GL_CreateContext and glewInit succeed or fail,    *)
(* SDL_PollEvent delivers any event or none, the window has any size.      *)
(***************************************************************************)
kernel == <<pc, fn, stage, argument, parameters, result, size, i, pixel_data,
            vertex_shader, fragment_shader, retval, faults, errors, bound,
            issued, deleted, log, slots, last, suspended>>

\* The window and the context SDL creates (the model has one of each).
TheWindow == 1
TheContext == 2

\* (event.type, event.key.keysym.sym) of the events SDL delivers.
Events == {<<"SDL_QUIT", "">>, <<"SDL_KEYDOWN", "SDLK_q">>,
           <<"SDL_KEYDOWN", "SDLK_a">>, <<"SDL_MOUSEMOTION", "">>}

\* The window sizes SDL_GetWindowSize reports.
WindowSizes == {<<0, 0>>, <<1280, 0>>, <<1280, 720>>}

\* One call of SDL, GLEW or OpenGL made by main: its name, its pointer
\* argument (nullptr when it has none) and what it returned.
MainCall(op, a, r) == Call(op, "", a, r, 0, 0)

\* window_deleter::operator(): the calls it makes.
window_deleter(pointer) ==
    IF pointer # nullptr
    THEN <<MainCall("SDL_DestroyWindow", pointer, 0)>>
    ELSE <<>>

\* opengl_context_deleter::operator(): the calls it makes.
opengl_context_deleter(pointer) ==
    IF pointer # nullptr
    THEN <<MainCall("SDL_GL_DeleteContext", pointer, 0)>>
    ELSE <<>>

\* The switch over event.type of the event loop: TRUE when the event
\* clears should_run.
Quits(event) ==
    \/ event[1] = "SDL_QUIT"
    \/ event[1] = "SDL_KEYDOWN" /\ event[2] = "SDLK_q"

\* The destructor of a std::unique_ptr holding `pointer`: the deleter,
\* which makes the calls `deleter`, is called on a pointer that is not null.
UniquePtrDestructor(pointer, deleter) ==
    IF pointer # nullptr THEN deleter ELSE <<>>

\* A return that runs the guard's destructor whatever was constructed.
MainReturn_GuardFirst(code, constructed) ==
    /\ returned' = code
    /\ main_pc' = CASE constructed <= 1 -> "~guard"
                    [] constructed = 2 -> "~window"
                    [] OTHER           -> "~context"

\* A return statement of main with `code`; `constructed` is the number of locals
\* constructed at that point, whose destructors run next.
MainReturn(code, constructed) ==
    /\ returned' = code
    /\ main_pc' = CASE constructed = 0 -> "done"
                    [] constructed = 1 -> "~guard"
                    [] constructed = 2 -> "~window"
                    [] OTHER      -> "~context"

\* SDL_Init; on failure main returns before the guard exists.
MainInit ==
    /\ main_pc = "start"
    /\ \E r \in {0, -1} :
          /\ sdl' = Append(sdl, MainCall("SDL_Init", nullptr, r))
          /\ IF r # 0
             THEN MainReturn("EXIT_FAILURE", 0)
             ELSE main_pc' = "window" /\ UNCHANGED returned
    /\ UNCHANGED <<window, context, should_run, frames, events, kernel>>

\* SDL_CreateWindow into `window`.
MainCreateWindow ==
    /\ main_pc = "window"
    /\ \E r \in {nullptr, TheWindow} :
          /\ sdl' = Append(sdl, MainCall("SDL_CreateWindow", nullptr, r))
          /\ window' = r
          /\ IF r = nullptr
             THEN MainReturn("EXIT_FAILURE", 2)
             ELSE main_pc' = "attributes" /\ UNCHANGED returned
    /\ UNCHANGED <<context, should_run, frames, events, kernel>>

\* The four SDL_GL_SetAttribute calls.
MainSetAttributes ==
    /\ main_pc = "attributes"
    /\ sdl' = sdl \o [k \in 1..4 |-> MainCall("SDL_GL_SetAttribute", nullptr, 0)]
    /\ main_pc' = "context"
    /\ UNCHANGED <<window, context, should_run, frames, events, returned, kernel>>

\* SDL_GL_CreateContext into `context`.
MainCreateContext ==
    /\ main_pc = "context"
    /\ \E r \in {nullptr, TheContext} :
          /\ sdl' = Append(sdl, MainCall("SDL_GL_CreateContext", window, r))
          /\ context' = r
          /\ IF r = nullptr
             THEN MainReturn("EXIT_FAILURE", 3)
             ELSE main_pc' = "current" /\ UNCHANGED returned
    /\ UNCHANGED <<window, should_run, frames, events, kernel>>

\* SDL_GL_MakeCurrent, then glewInit.
MainInitBindings ==
    /\ main_pc = "current"
    /\ \E r \in {0, 1} :
          /\ sdl' = sdl \o <<MainCall("SDL_GL_MakeCurrent", window, 0),
                             MainCall("glewInit", nullptr, r)>>
          /\ IF r # 0
             THEN MainReturn("EXIT_FAILURE", 3)
             ELSE main_pc' = "state" /\ UNCHANGED returned
    /\ UNCHANGED <<window, context, should_run, frames, events, kernel>>

\* The OpenGL state set before the loop, and the loop's initialiser.
MainSetState ==
    /\ main_pc = "state"
    /\ sdl' = Append(sdl, MainCall("glDisable", nullptr, 0))
    /\ should_run' = TRUE
    /\ main_pc' = "events"
    /\ UNCHANGED <<window, context, frames, events, returned, kernel>>

\* One SDL_PollEvent of the inner loop: an event is handled, or there is
\* none and the frame is rendered.
MainPollEvent ==
    /\ main_pc = "events"
    /\ frames < MaxFrames
    /\ \/ /\ events < MaxEvents
          /\ \E event \in Events :
                /\ sdl' = Append(sdl, MainCall("SDL_PollEvent", nullptr, 1))
                /\ should_run' = IF Quits(event) THEN FALSE ELSE should_run
          /\ events' = events + 1
          /\ UNCHANGED main_pc
       \/ /\ sdl' = Append(sdl, MainCall("SDL_PollEvent", nullptr, 0))
          /\ events' = 0
          /\ main_pc' = "render"
          /\ UNCHANGED should_run
    /\ UNCHANGED <<window, context, frames, returned, kernel>>

\* The frame is rendered, then the loop condition is tested.
MainRender ==
    /\ main_pc = "render"
    /\ \E wh \in WindowSizes :
          sdl' = sdl \o <<MainCall("SDL_GetWindowSize", window, 0)>> \o
                 (IF wh[1] # 0 /\ wh[2] # 0
                  THEN <<MainCall("glViewport", nullptr, 0),
                         MainCall("glClear", nullptr, 0),
                         MainCall("SDL_GL_SwapWindow", window, 0)>>
                  ELSE <<>>)
    /\ frames' = frames + 1
    /\ IF should_run
       THEN main_pc' = "events" /\ UNCHANGED returned
       ELSE MainReturn("EXIT_SUCCESS", 3)
    /\ UNCHANGED <<window, context, should_run, events, kernel>>

\* The destructor of `context`.
MainDestroyContext ==
    /\ main_pc = "~context"
    /\ sdl' = sdl \o UniquePtrDestructor(context, opengl_context_deleter(context))
    /\ main_pc' = "~window"
    /\ UNCHANGED <<window, context, should_run, frames, events, returned, kernel>>

\* The destructor of `window`.
MainDestroyWindow ==
    /\ main_pc = "~window"
    /\ sdl' = sdl \o UniquePtrDestructor(window, window_deleter(window))
    /\ main_pc' = "~guard"
    /\ UNCHANGED <<window, context, should_run, frames, events, returned, kernel>>

\* The destructor of the guard.
MainDestroyGuard ==
    /\ main_pc = "~guard"
    /\ sdl' = Append(sdl, MainCall("SDL_Quit", nullptr, 0))
    /\ main_pc' = "done"
    /\ UNCHANGED <<window, context, should_run, frames, events, returned, kernel>>

InitMain == InitWith({{}}, {{}})

NextMain ==
    \/ MainInit
    \/ MainCreateWindow
    \/ MainSetAttributes
    \/ MainCreateContext
    \/ MainInitBindings
    \/ MainSetState
    \/ MainPollEvent
    \/ MainRender
    \/ MainDestroyContext
    \/ MainDestroyWindow
    \/ MainDestroyGuard

SpecMain == InitMain /\ [][NextMain]_vars

(***************************************************************************)
(* Properties.                                                             *)
(***************************************************************************)
\* The top-level call has run its destructors and returns `retval`.
Returning == pc = "ret" /\ stage = "none"

GenerateOps == {"glGenBuffers", "glGenTextures", "glGenFramebuffers",
                "glCreateShader", "glCreateProgram"}
DeleteOps == {"glDeleteBuffers", "glDeleteTextures", "glDeleteFramebuffers",
              "glDeleteShader", "glDeleteProgram"}
BindOps == {"glBindBuffer", "glBindTexture", "glBindFramebuffer"}

\* The positions in the log of the calls of the operations `ops`.
CallsOf(ops) == {k \in 1..Len(log) : log[k].op \in ops}

\* The positions in the log of the generate calls that wrote a name.
Issues == {k \in CallsOf(GenerateOps) : log[k].a # 0}

\* The positions in the log of the delete calls for name n.
DeletesOf(n) == {k \in CallsOf(DeleteOps) : log[k].a = n}

\* The generate operation of each delete operation.
GenerateOf(op) ==
    CASE op = "glDeleteBuffers" -> "glGenBuffers"
      [] op = "glDeleteTextures" -> "glGenTextures"
      [] op = "glDeleteFramebuffers" -> "glGenFramebuffers"
      [] op = "glDeleteShader" -> "glCreateShader"
      [] op = "glDeleteProgram" -> "glCreateProgram"

\* The number of handles that hold name n: the caller's live handles and the
\* handles of the call in progress.
Holders(n) ==
    Cardinality({s \in Slots : slots[s].live /\ slots[s].handle = n})
        + (IF result = n THEN 1 ELSE 0)
        + (IF retval.handle = n THEN 1 ELSE 0)
        + (IF vertex_shader.handle = n THEN 1 ELSE 0)
        + (IF fragment_shader.handle = n THEN 1 ELSE 0)

\* C1: every name the backend issued, and so every name returned in a
\* handle, has been deleted exactly once with the delete operation of its
\* kind when no handle holds it any more, and not at all while a handle
\* holds it: not in the call that returns it (the returned handle holds it),
\* not when a moved-from handle (holding 0) is destroyed, and at once when
\* the handle that holds it is destroyed.
C1_SingleRelease ==
    /\ \A n \in 1..Len(issued) :
        /\ Len(deleted[n]) + Holders(n) = 1
        /\ deleted[n] \in {<<>>, <<Deleter(issued[n])>>}
    /\ \A n \in Names \ (1..Len(issued)) : deleted[n] = <<>>
    /\ \A s \in Slots :
        slots[s].handle # 0 => slots[s].kind = issued[slots[s].handle]
    /\ (Returning /\ retval.ok /\ retval.handle # 0)
            => deleted[retval.handle] = <<>>

\* The destruction of a handle holding a name has deleted the name, while a
\* moved-from handle (live, holding 0) exists.
C1_Witness ==
    /\ last[1] = "destroy"
    /\ last[4] # 0
    /\ deleted[last[4]] = <<Deleter(issued[last[4]])>>
    /\ \E s \in Slots : slots[s].live /\ slots[s].handle = 0

\* C2: every non-zero name is held by at most one handle, and the source of
\* a move construction or of a move assignment (to another handle) holds 0
\* afterwards.
C2_SingleOwner ==
    /\ \A n \in Names : Holders(n) <= 1
    /\ last[1] = "construct" => slots[last[2]].handle = 0
    /\ (last[1] = "assign" /\ last[2] # last[3]) => slots[last[2]].handle = 0

\* A non-zero name has been moved from one handle to another.
C2_Witness ==
    /\ last[1] \in {"construct", "assign"}
    /\ last[2] # last[3]
    /\ slots[last[3]].handle # 0

\* What `to = std::move(from)` has to do, from the handles before it.
C3_Assignment(from, to) ==
    LET x == slots[to].handle
        y == slots[from].handle
    IN  IF from = to
        THEN /\ slots'[to].handle = y
             /\ deleted' = deleted
        ELSE /\ slots'[to].handle = y
             /\ slots'[from].handle = 0
             /\ deleted' = IF x # 0
                           THEN [deleted EXCEPT
                                   ![x] = Append(@, Deleter(slots[to].kind))]
                           ELSE deleted

\* C3: every move assignment, in every state the caller can reach by any
\* chain of operations, leaves the target holding the source's name y and
\* the source holding 0, deletes the target's old name x once when it is not
\* 0, and deletes nothing else (not y); a self-assignment leaves the handle
\* as it is and deletes nothing.
C3_MoveAssign ==
    [][\A from \in Slots, to \in Slots :
            MoveAssign(from, to) => C3_Assignment(from, to)]_vars

\* A handle holding x # 0 has been assigned from another holding y # 0.
C3_Witness ==
    /\ last[1] = "assign"
    /\ last[2] # last[3]
    /\ last[4] # 0
    /\ slots[last[3]].handle \notin {0, last[4]}
    /\ slots[last[2]].handle = 0
    /\ Len(deleted[last[4]]) = 1

\* The statement of C4 as claimed: on every failure exit the call has issued
\* as many generate calls as delete calls.
C4_GenerateCallsEqualDeleteCalls ==
    (Returning /\ ~retval.ok)
        => Cardinality(CallsOf(GenerateOps)) = Cardinality(CallsOf(DeleteOps))

\* C4 (amended): on every failure exit of every function (the size check,
\* the parameter check, every error-flag and status check), the number of
\* generate calls of the call that wrote a non-zero name equals the number
\* of delete calls issued when the function returns.
C4_IssuedNamesEqualDeleteCalls ==
    (Returning /\ ~retval.ok)
        => Cardinality(Issues) = Cardinality(CallsOf(DeleteOps))

\* Program acquisition fails at its last check with three names issued.
C4_Witness ==
    /\ Returning
    /\ retval = error(469, 1285)
    /\ Cardinality(Issues) = 3
    /\ Cardinality(CallsOf(DeleteOps)) = 3

\* C5: on every failure exit of each of the five functions, every non-zero
\* name a generate call of the call wrote (the shader names of program
\* acquisition included) has been deleted by exactly one delete call, of the
\* operation of its kind, issued after it, and the result holds no handle.
C5_NoLeakOnFailure ==
    (Returning /\ ~retval.ok)
        => /\ \A k \in Issues :
                /\ Cardinality(DeletesOf(log[k].a)) = 1
                /\ \A d \in DeletesOf(log[k].a) :
                        d > k /\ GenerateOf(log[d].op) = log[k].op
           /\ retval.handle = 0
           /\ \A n \in 1..Len(issued) : Holders(n) = 0

\* Program acquisition fails at linking: both shaders and the program were
\* issued and each is deleted.
C5_Witness ==
    /\ Returning
    /\ retval = error(463, 0)
    /\ Cardinality(Issues) = 3
    /\ \A k \in Issues : Cardinality(DeletesOf(log[k].a)) = 1

\* C6: when buffer, texture or framebuffer acquisition returns, with a
\* handle or with a failure, every binding point the call bound an object
\* to holds 0.
C6_BindingRestored ==
    (Returning /\ fn \in {"buffer", "texture", "framebuffer"})
        => \A k \in CallsOf(BindOps) : bound[log[k].s] = 0

\* Buffer acquisition returns a handle after binding it to the element
\* array target.
C6_Witness ==
    /\ Returning
    /\ fn = "buffer"
    /\ retval.ok
    /\ \E k \in CallsOf(BindOps) :
        /\ log[k].s = "GL_ELEMENT_ARRAY_BUFFER"
        /\ log[k].a = retval.handle
        /\ log[k].a # 0

\* C7: buffer acquisition with a span whose length does not fit GLsizeiptr
\* returns a failure with code 0 and has issued no generate, bind or upload
\* call.
C7_OversizedSpan ==
    (Returning /\ fn = "buffer" /\ argument.bytes.size > SizeiptrMax)
        => /\ ~retval.ok
           /\ retval.code = 0
           /\ CallsOf(GenerateOps \cup BindOps \cup {"glBufferData"}) = {}

\* Buffer acquisition returns for a span one byte longer than GLsizeiptr holds.
C7_Witness ==
    /\ Returning
    /\ fn = "buffer"
    /\ argument.bytes.size = SizeiptrMax + 1
    /\ retval = error(125, 0)

\* The extents and level counts at the edges of the texture check.
C8_Edges == {-1, 0, 1, 16383, 16384}

\* C8: texture acquisition returns a failure with code 0 without a generate
\* call exactly when one of width, height and mipmap_count is <= 0 or
\* >= 16384; with all three in 1..16383 the check passes and glGenTextures
\* is called.  (The check itself is also evaluated for mipmap_count = 16383.)
C8_TextureCheck ==
    /\ (Returning /\ fn = "texture")
        => LET outside ==
                \/ argument.width <= 0 \/ argument.width >= 16384
                \/ argument.height <= 0 \/ argument.height >= 16384
                \/ argument.mipmap_count <= 0 \/ argument.mipmap_count >= 16384
           IN  /\ outside <=> (/\ ~retval.ok
                              /\ retval.code = 0
                              /\ CallsOf({"glGenTextures"}) = {})
               /\ ~outside <=> Cardinality(CallsOf({"glGenTextures"})) = 1
    /\ (pc = "check" /\ fn = "texture")
        => \A w \in C8_Edges, h \in C8_Edges, m \in C8_Edges :
                ~InvalidTextureParameters(w, h, m)
                    <=> (w \in 1..16383 /\ h \in 1..16383 /\ m \in 1..16383)

\* Texture acquisition of the largest texture passes the check.
C8_Witness ==
    /\ Returning
    /\ fn = "texture"
    /\ argument.width = 16383
    /\ argument.height = 16383
    /\ CallsOf({"glGenTextures"}) # {}

\* The glTexImage2D calls of the log, in order.
Images == SelectSeq(log, LAMBDA c : c.op = "glTexImage2D")

\* The extent of mip level k of a texture of extent e: max(1, floor(e / 2^k)).
C9_Extent(e, k) == IF e \div (2^k) < 1 THEN 1 ELSE e \div (2^k)

\* C9: the uploads of a texture acquisition are for levels 0, 1, ... in this
\* order, level k with extent max(1, floor(width / 2^k)) by
\* max(1, floor(height / 2^k)), and a call that meets no backend error
\* (it returns a handle) has issued exactly mipmap_count uploads.
C9_MipChain ==
    fn = "texture"
        => /\ \A k \in 1..Len(Images) :
                /\ Images[k].a = k - 1
                /\ Images[k].b = C9_Extent(argument.width, k - 1)
                /\ Images[k].c = C9_Extent(argument.height, k - 1)
                /\ Images[k].b >= 1
                /\ Images[k].c >= 1
           /\ (Returning /\ retval.ok)
                => Len(Images) = argument.mipmap_count

\* A 5 x 1 texture with 3 levels is acquired: 5 x 1, 2 x 1, 1 x 1.
C9_Witness ==
    /\ Returning
    /\ fn = "texture"
    /\ retval.ok
    /\ argument.width = 5
    /\ argument.height = 1
    /\ Len(Images) = 3
    /\ Images[2].b = 2 /\ Images[2].c = 1
    /\ Images[3].b = 1 /\ Images[3].c = 1

\* The byte size of mip level k, and of the levels before level k.
C10_LevelBytes(k) ==
    C9_Extent(argument.width, k) * C9_Extent(argument.height, k) * 4

RECURSIVE C10_BytesBefore(_)
C10_BytesBefore(k) ==
    IF k = 0 THEN 0 ELSE C10_BytesBefore(k - 1) + C10_LevelBytes(k - 1)

\* The bytes left in the span after the levels before level k.
C10_BytesLeft(k) ==
    IF argument.pixels.size < C10_BytesBefore(k) THEN 0
    ELSE argument.pixels.size - C10_BytesBefore(k)

\* C10: mip level k is passed a null pointer exactly when the bytes left in
\* the span after the levels before it are fewer than the level's
\* width x height x 4, and else the span's bytes from the offset that is the
\* sum of the byte sizes of the levels before it.
C10_PixelData ==
    fn = "texture"
        => \A k \in 1..Len(Images) :
            /\ Images[k].d = nullptr
                    <=> C10_BytesLeft(k - 1) < C10_LevelBytes(k - 1)
            /\ Images[k].d # nullptr
                    => Images[k].d = argument.pixels.data + C10_BytesBefore(k - 1)

\* 256 x 256 with 4 levels and data for level 0 only: level 0 gets the data,
\* levels 1 to 3 a null pointer.
C10_Witness ==
    /\ Returning
    /\ fn = "texture"
    /\ retval.ok
    /\ argument.width = 256
    /\ argument.height = 256
    /\ argument.pixels.size = 262144
    /\ Len(Images) = 4
    /\ Images[1].d = argument.pixels.data
    /\ \A k \in 2..4 : Images[k].d = nullptr

\* The calls of the log with operation op and first argument s.
CallsTo(op, s) == {k \in CallsOf({op}) : log[k].s = s}

\* C11: whenever glCheckFramebufferStatus returns a status other than
\* GL_FRAMEBUFFER_COMPLETE, framebuffer acquisition returns a failure whose
\* code is that status (non-zero for every non-zero status), whatever is
\* attached and whatever error flags are pending.
C11_StatusCode ==
    (Returning /\ fn = "framebuffer")
        => \A k \in CallsOf({"glCheckFramebufferStatus"}) :
                log[k].a # GL_FRAMEBUFFER_COMPLETE
                    => /\ ~retval.ok
                       /\ retval.code = log[k].a
                       /\ retval.line = 329
                       /\ log[k].a # 0 => retval.code # 0

\* With a color target alone the backend reports a missing attachment.
C11_Witness ==
    /\ Returning
    /\ fn = "framebuffer"
    /\ argument.render_target # 0
    /\ argument.depth_buffer = 0
    /\ CallsTo("glFramebufferTexture2D", "GL_COLOR_ATTACHMENT0") # {}
    /\ \E k \in CallsOf({"glCheckFramebufferStatus"}) : log[k].a = 36055
    /\ retval = error(329, 36055)

\* The framebuffer call passed the error check that follows the generation.
C12_Generated == retval.ok \/ retval.line # 301

ProgramOps ==
    {"glCreateProgram", "glAttachShader", "glLinkProgram", "glGetProgramiv"}

\* The calls of the log made for the fragment shader.
FragmentCalls == {k \in 1..Len(log) : log[k].s = "GL_FRAGMENT_SHADER"}

\* The vertex-stage shader acquisition of a program acquisition has failed:
\* it has returned its record, or the program function is returning it.
VertexFailed ==
    \/ pc = "ret" /\ stage = "vertex" /\ ~retval.ok
    \/ fn = "program" /\ pc = "exit_vertex" /\ vertex_shader # NoValue
            /\ ~vertex_shader.ok

\* C13: once the vertex-stage shader acquisition of a program acquisition
\* has failed (glCreateShader returned 0, the compile status is false or an
\* error flag is set), the fragment stage is not entered and no call for the
\* fragment shader is in the log, up to the return of the function.
C13_NoFragmentAfterVertexFailure ==
    [][VertexFailed
        => /\ FragmentCalls = {}
           /\ stage' # "fragment"
           /\ pc' \in {"exit_vertex", "ret"}
           /\ {k \in 1..Len(log') : log'[k].s = "GL_FRAGMENT_SHADER"} = {}
           /\ VertexFailed' \/ (pc' = "ret" /\ stage' = "none" /\ ~retval'.ok)]_vars

\* The vertex shader failed to compile and program acquisition is returning.
C13_Witness ==
    /\ fn = "program"
    /\ pc = "exit_vertex"
    /\ vertex_shader = error(388, 0)
    /\ \E k \in CallsOf({"glCompileShader"}) : log[k].s = "GL_VERTEX_SHADER"
    /\ FragmentCalls = {}

\* The fragment-stage shader acquisition of a program acquisition has failed
\* and the program function is returning its record.
FragmentFailed ==
    /\ fn = "program"
    /\ pc = "exit_fragment"
    /\ fragment_shader # NoValue
    /\ ~fragment_shader.ok

\* The records program acquisition returns when its fragment stage fails.
C14_FragmentFailures ==
    {error(378, 0), error(388, 0)} \cup {error(394, code) : code \in ErrorCodes}

\* C14: the failure record of program acquisition identifies the stage that
\* failed: the record returned when the vertex stage fails is none of the
\* records returned when the fragment stage fails.
C14_StageIdentified ==
    /\ FragmentFailed => retval \in C14_FragmentFailures
    /\ (VertexFailed /\ fn = "program") => retval \notin C14_FragmentFailures

\* A shader acquisition inside program acquisition has just returned a
\* failure record to the program function.
ShaderFailed == pc = "ret" /\ stage \in {"vertex", "fragment"} /\ ~retval.ok

\* The program function is leaving without having created a program.
Unwinding ==
    /\ fn = "program"
    /\ pc \in {"exit_fragment", "exit_vertex"}
    /\ CallsOf(ProgramOps) = {}

\* C15: from the moment a shader acquisition inside program acquisition
\* returns a failure record, every step up to the return of program
\* acquisition keeps that record (marker and code) as the value to return
\* and issues no glCreateProgram, glAttachShader, glLinkProgram or
\* glGetProgramiv call; the function returns that record and no handle.
C15_ForwardAndStop ==
    [][(ShaderFailed \/ Unwinding)
        => /\ CallsOf(ProgramOps) = {}
           /\ retval'.line = retval.line
           /\ retval'.code = retval.code
           /\ ~retval'.ok
           /\ retval'.handle = 0
           /\ result' = 0
           /\ {k \in 1..Len(log') : log'[k].op \in ProgramOps} = {}
           /\ Unwinding' \/ (pc' = "ret" /\ stage' = "none")]_vars

\* The fragment shader met an error flag and program acquisition returns
\* the record of the shader function, with the flag as code.
C15_Witness ==
    /\ Returning
    /\ fn = "program"
    /\ retval = error(394, 1280)
    /\ FragmentCalls # {}
    /\ CallsOf(ProgramOps) = {}

\* The shader names the call created (glCreateShader returned them).
ShaderNames == {log[k].a : k \in {c \in CallsOf({"glCreateShader"}) : log[c].a # 0}}

\* The program names the call created.
ProgramNames == {log[k].a : k \in {c \in CallsOf({"glCreateProgram"}) : log[c].a # 0}}

\* The delete calls of the log for name n with operation op.
DeleteCalls(op, n) == {k \in CallsOf({op}) : log[k].a = n}

\* C16: when program acquisition returns, on every exit, each shader it
\* acquired (the names it attached, and every other shader name it created)
\* has been deleted by exactly one glDeleteShader call; on the paths that
\* reach glLinkProgram those calls follow the link call, and the program
\* name has been deleted (once, before the shaders) iff the function returns
\* a failure, and is the returned handle otherwise.
C16_ShadersReleased ==
    (Returning /\ fn = "program")
        => /\ \A n \in ShaderNames :
                /\ Cardinality(DeleteCalls("glDeleteShader", n)) = 1
                /\ deleted[n] = <<"glDeleteShader">>
                /\ \A l \in CallsOf({"glLinkProgram"}),
                      d \in DeleteCalls("glDeleteShader", n) : l < d
           /\ CallsOf({"glLinkProgram"}) # {}
                => Cardinality(CallsOf({"glDeleteShader"})) = 2
           /\ CallsOf({"glDeleteShader"}) \subseteq
                UNION {DeleteCalls("glDeleteShader", n) : n \in ShaderNames}
           /\ \A p \in ProgramNames :
                /\ retval.ok <=> DeleteCalls("glDeleteProgram", p) = {}
                /\ retval.ok <=> retval.handle = p
                /\ ~retval.ok
                    => /\ Cardinality(DeleteCalls("glDeleteProgram", p)) = 1
                       /\ \A d \in DeleteCalls("glDeleteProgram", p),
                             s \in CallsOf({"glDeleteShader"}) : d < s
           /\ CallsOf({"glDeleteProgram"}) \subseteq
                UNION {DeleteCalls("glDeleteProgram", p) : p \in ProgramNames}

\* Program acquisition returns the linked program: both shaders were
\* deleted after the link call and the program was not.
C16_Witness ==
    /\ Returning
    /\ fn = "program"
    /\ retval.ok
    /\ retval.handle \in ProgramNames
    /\ Cardinality(ShaderNames) = 2
    /\ CallsOf({"glLinkProgram"}) # {}
    /\ Cardinality(CallsOf({"glDeleteShader"})) = 2
    /\ CallsOf({"glDeleteProgram"}) = {}

\* C17: every result an acquisition function returns is a failure record or
\* a handle holding a non-zero name, also when the generate call left the
\* name at 0 without raising an error flag.
C17_SuccessHoldsName ==
    (Returning /\ retval.ok) => retval.handle # 0

\* The program function got past the vertex stage and its fragment stage
\* failed: calls for the fragment shader were made, no program was created.
FragmentStageFailed ==
    /\ Returning
    /\ fn = "program"
    /\ ~retval.ok
    /\ FragmentCalls # {}
    /\ CallsOf({"glCreateProgram"}) = {}

\* The statement of C18 as claimed: one shader delete call at every failure
\* point of the fragment stage.
C18_OneShaderDelete ==
    FragmentStageFailed => Cardinality(CallsOf({"glDeleteShader"})) = 1

\* C18 (amended): when the vertex stage succeeded and the fragment stage
\* fails, by the return of program acquisition the vertex shader's name has
\* exactly one delete call, and the count of shader delete calls is 1 when
\* glCreateShader returned 0 for the fragment shader and 2 (the fragment
\* shader's name is deleted too, first) when it failed at the compile status
\* or at the error flag.
C18_VertexShaderDeletedOnce ==
    FragmentStageFailed
        => \E v \in CallsOf({"glCreateShader"}), f \in CallsOf({"glCreateShader"}) :
            /\ log[v].s = "GL_VERTEX_SHADER"
            /\ log[f].s = "GL_FRAGMENT_SHADER"
            /\ log[v].a # 0
            /\ Cardinality(DeleteCalls("glDeleteShader", log[v].a)) = 1
            /\ Cardinality(DeleteCalls("glDeleteShader", log[f].a)) =
                    IF log[f].a # 0 THEN 1 ELSE 0
            /\ Cardinality(CallsOf({"glDeleteShader"})) =
                    IF retval.line = 378 THEN 1 ELSE 2
            /\ retval.line = 378 <=> log[f].a = 0
            /\ retval.line \in {378, 388, 394}
            /\ \A d \in DeleteCalls("glDeleteShader", log[f].a),
                  e \in DeleteCalls("glDeleteShader", log[v].a) : d < e

\* The fragment shader failed to compile: two delete calls, its name's and
\* the vertex shader's.
C18_Witness ==
    /\ FragmentStageFailed
    /\ retval = error(388, 0)
    /\ Cardinality(CallsOf({"glDeleteShader"})) = 2

\* The byte span of the buffer call does not fit GLsizeiptr.
SizeViolated == fn = "buffer" /\ argument.bytes.size > SizeiptrMax

\* The statement of C19 as claimed: the call has issued no backend call of
\* any kind, reads of the error flag included, when it returns.
C19_NoBackendCall ==
    (Returning /\ SizeViolated) => log = <<>>

\* C19 (amended): a buffer acquisition whose span violates the size
\* precondition issues no backend call but the reads of the error flag made
\* by discard_errors() (one more than the flags pending at the call, which
\* they reset) before the size check, and returns the local failure.
C19_OnlyErrorFlagReads ==
    /\ (SizeViolated /\ pc \notin {"idle", "discard"})
        => /\ \A k \in 1..Len(log) : log[k].op = "glGetError"
           /\ Len(log) \in 1..(1 + Cardinality(ErrorCodes))
           /\ errors = {}
           /\ issued = <<>>
           /\ \A t \in Targets : bound[t] = 0
    /\ (SizeViolated /\ pc = "discard")
        => \A k \in 1..Len(log) : log[k].op = "glGetError"
    /\ (Returning /\ SizeViolated) => retval = error(125, 0)

\* The call with an oversized span returns after three reads of the error
\* flag: two flags were pending.
C19_Witness ==
    /\ Returning
    /\ SizeViolated
    /\ retval = error(125, 0)
    /\ Len(log) = 3

\* The shape of the log of a texture call that is returning: each upload is
\* followed by one read of the error flag, and a call that failed at the
\* check of an upload has uploaded levels 0..k and nothing after the read
\* for level k but the unbinding and the deletion of the name.
C20_Log ==
    (Returning /\ fn = "texture")
        => /\ \A p \in CallsOf({"glTexImage2D"}) :
                /\ p + 2 <= Len(log)
                /\ log[p + 1].op = "glGetError"
                /\ log[p + 2].op \in {"glTexImage2D", "glBindTexture"}
           /\ retval.line = 245
                => /\ Images # <<>>
                   /\ Len(Images) <= argument.mipmap_count
                   /\ \A k \in 1..Len(Images) : Images[k].a = k - 1
                   /\ \E p \in CallsOf({"glTexImage2D"}), g \in CallsOf({"glGenTextures"}) :
                        /\ log[p].a = Len(Images) - 1
                        /\ log[p + 2] = Call("glBindTexture", "GL_TEXTURE_2D", 0, 0, 0, 0)
                        /\ IF log[g].a # 0
                           THEN /\ Len(log) = p + 3
                                /\ log[p + 3] = Call("glDeleteTextures", "", log[g].a, 0, 0, 0)
                                /\ deleted[log[g].a] = <<"glDeleteTextures">>
                           ELSE Len(log) = p + 2
                   /\ bound["GL_TEXTURE_2D"] = 0
                   /\ ~retval.ok
                   /\ retval.handle = 0

\* C20: in texture acquisition each upload of a mip level is followed by
\* one read of the error flag; a read that returns an error ends the loop:
\* the record carries the code read (a flag that was pending), no further
\* level is uploaded, the binding point is unbound and the name deleted
\* before the return; a read that returns no error goes on with the next
\* level.
C20_FirstErrorAborts ==
    [][/\ (pc = "image_error" /\ fn = "texture")
            => /\ log[Len(log)].op = "glTexImage2D"
               /\ log[Len(log)].a = i
               /\ log' = Append(log, Call("glGetError", "", 0, 0, 0, 0))
               /\ IF errors # {}
                  THEN /\ retval'.line = 245
                       /\ retval'.code \in errors
                       /\ retval'.code \notin errors'
                       /\ ~retval'.ok
                       /\ pc' = "exit_guard"
                       /\ i' = i
                  ELSE /\ retval' = retval
                       /\ pc' = "loop"
                       /\ i' = i + 1
       /\ (fn = "texture" /\ pc \in {"exit_guard", "exit_result"})
            => retval' = retval
       /\ C20_Log']_vars

\* The upload of level 1 of 3 left an error flag: the call returns it after
\* two uploads.
C20_Witness ==
    /\ Returning
    /\ fn = "texture"
    /\ argument.mipmap_count = 3
    /\ retval = error(245, 1285)
    /\ Len(Images) = 2
    /\ bound["GL_TEXTURE_2D"] = 0

\* The calls of the log after call c with an operation of ops.
CallsAfter(c, ops) == {k \in CallsOf(ops) : k > c}

ErrorFlagLines == {134, 153, 210, 225, 245, 301, 334, 394, 469}

\* The backend calls of the function in the log all succeeded: the create
\* calls returned names and the status queries reported success.
OwnCallsSucceeded ==
    /\ \A k \in CallsOf({"glCreateShader", "glCreateProgram"}) : log[k].a # 0
    /\ \A k \in CallsOf({"glGetShaderiv", "glGetProgramiv"}) : log[k].b # GL_FALSE
    /\ \A k \in CallsOf({"glCheckFramebufferStatus"}) :
            log[k].a = GL_FRAMEBUFFER_COMPLETE

\* The call was not rejected by the local check of its parameters.
ParametersAccepted == retval.ok \/ retval.line \notin {125, 201}

\* C22: error flags pending when an acquisition function is called never
\* make it fail.  discard_errors() leaves no flag pending when it returns,
\* whatever was pending; no later step finds a flag the backend did not
\* raise in the call; and when the calls of the function raise no flag, no
\* return on an error flag is taken and a call whose own backend calls all
\* succeed returns a handle.
C22_PendingFlagsDiscarded ==
    [][/\ (pc = "discard" /\ pc' # "discard") => errors' = {}
       /\ pc \notin {"idle", "discard"} => errors' \subseteq errors \cup faults
       /\ (Returning' /\ faults' = {})
            => /\ errors' = {}
               /\ ~retval'.ok => retval'.line \notin ErrorFlagLines
               /\ (OwnCallsSucceeded /\ ParametersAccepted)' => retval'.ok]_vars

\* Buffer acquisition called with two flags pending read the error flag
\* three times before glGenBuffers and returns a handle.
C22_Witness ==
    /\ Returning
    /\ fn = "buffer"
    /\ retval.ok
    /\ retval.handle # 0
    /\ \E g \in CallsOf({"glGenBuffers"}) :
        /\ g = 4
        /\ \A k \in 1..3 : log[k].op = "glGetError"

\* C23: every call of an acquisition function, with every parameter record
\* and every finite set of error flags pending, returns a result: the loop
\* of discard_errors() ends (it has read the flag at most once more than
\* there are flags) and the mip loop issues at most mipmap_count uploads.
C23_Terminates ==
    /\ []((pc = "discard" /\ stage \in {"none", "vertex"})
            => /\ Len(log) <= Cardinality(ErrorCodes)
               /\ \A k \in 1..Len(log) : log[k].op = "glGetError")
    /\ [](fn = "texture" => /\ i <= argument.mipmap_count \/ i = 0
                            /\ Len(Images) <= argument.mipmap_count \/ Images = <<>>)
    /\ (pc = "discard" /\ stage \in {"none", "vertex"}) ~> Returning

\* A 256 x 256 texture with 4 levels, called with two flags pending, has
\* returned after three reads of the flag and four uploads.
C23_Witness ==
    /\ Returning
    /\ fn = "texture"
    /\ argument.mipmap_count = 4
    /\ Len(Images) = 4
    /\ retval.ok
    /\ \A k \in 1..3 : log[k].op = "glGetError"
    /\ log[4].op = "glGenTextures"

\* The name the call of the frame generated for its buffer.
OwnBuffer(frame) ==
    {frame.log[k].a : k \in {g \in 1..Len(frame.log) :
                                frame.log[g].op = "glGenBuffers"}}

\* The uploads of the frame that were applied while another buffer than its
\* own, or none, was bound to the target.
ForeignUploads(frame) ==
    {k \in 1..Len(frame.log) :
        /\ frame.log[k].op = "glBufferData"
        /\ frame.log[k].c \notin OwnBuffer(frame)}

\* C24: the binding point is shared by the calls in progress.  An upload of
\* a buffer acquisition that no other thread has interrupted since it began
\* (the acquisitions run one after the other) is applied while the call's
\* own buffer is bound; an upload applied to another buffer or to none is
\* made only by a call that was interleaved with another one.  (The step
\* is the upload of the running call: the call that is not running is left
\* as it is.)
C24_UploadToOwnBuffer ==
    [][(pc = "data" /\ fn = "buffer" /\ pc' = "data_error"
            /\ suspended' = suspended)
        => /\ last[1] = "call"
                => /\ bound[parameters.type] = result
                   /\ ForeignUploads(Frame)' = {}
           /\ ForeignUploads(Frame)' # {} => last[1] = "switch"]_vars

\* Two interleaved acquisitions on GL_ARRAY_BUFFER: one has uploaded its
\* data while the other's buffer was bound, the other while none was.
C24_Witness ==
    /\ \E k \in ForeignUploads(suspended) :
        /\ suspended.log[k].c # 0
        /\ suspended.log[k].c \in OwnBuffer(Frame)
        /\ suspended.log[k].s = "GL_ARRAY_BUFFER"
    /\ \E k \in ForeignUploads(Frame) :
        /\ log[k].c = 0
        /\ log[k].s = "GL_ARRAY_BUFFER"
    /\ 0 \notin OwnBuffer(Frame) \cup OwnBuffer(suspended)

\* C25: when buffer, texture or framebuffer acquisition returns after it bound
\* the new object, the log holds two bind calls for the binding point, the
\* second one of name 0 (the unbinding); on a failure exit the delete call
\* of the object follows the unbinding (and is the one call after it), on
\* the success exit the unbinding is the last call and no delete call is
\* in the log.
C25_UnbindBeforeDelete ==
    (Returning /\ fn \in {"buffer", "texture", "framebuffer"}
               /\ CallsOf(BindOps) # {})
        => \E b \in CallsOf(BindOps), u \in CallsOf(BindOps) :
            /\ b < u
            /\ CallsOf(BindOps) = {b, u}
            /\ log[b].s = log[u].s
            /\ log[u].a = 0
            /\ \A g \in CallsOf(GenerateOps) : log[b].a = log[g].a
            /\ \A d \in CallsOf(DeleteOps) : u < d /\ log[d].a = log[b].a
            /\ IF retval.ok
               THEN /\ CallsOf(DeleteOps) = {}
                    /\ Len(log) = u
                    /\ retval.handle = log[b].a
               ELSE /\ Cardinality(CallsOf(DeleteOps)) =
                            IF log[b].a # 0 THEN 1 ELSE 0
                    /\ Len(log) = u + Cardinality(CallsOf(DeleteOps))

\* Framebuffer acquisition failed at the status check after binding name
\* n: glBindFramebuffer(GL_FRAMEBUFFER, 0), then glDeleteFramebuffers(n).
C25_Witness ==
    /\ Returning
    /\ fn = "framebuffer"
    /\ retval.line = 329
    /\ Len(log) >= 2
    /\ log[Len(log)].op = "glDeleteFramebuffers"
    /\ log[Len(log)].a # 0
    /\ log[Len(log) - 1] = Call("glBindFramebuffer", "GL_FRAMEBUFFER", 0, 0, 0, 0)

\* C26: in texture acquisition every level after a level that was passed a
\* null data pointer is passed a null pointer too: the level that found too
\* few bytes has emptied the span.
C26_NullStaysNull ==
    fn = "texture"
        => /\ \A j \in 1..Len(Images), k \in 1..Len(Images) :
                (j < k /\ Images[j].d = nullptr) => Images[k].d = nullptr
           /\ (pc = "loop" /\ Images # <<>> /\ Images[Len(Images)].d = nullptr)
                => parameters.pixels.size = 0

\* 5 x 2 with 3 levels and 46 bytes: level 0 takes 40, level 1 (8 bytes)
\* finds 6 and gets null, level 2 (4 bytes) gets null though 6 were left.
C26_Witness ==
    /\ Returning
    /\ fn = "texture"
    /\ argument.width = 5
    /\ argument.height = 2
    /\ argument.pixels.size = 46
    /\ Len(Images) = 3
    /\ Images[1].d = argument.pixels.data
    /\ Images[2].d = nullptr
    /\ Images[3].d = nullptr

\* The value of a GLuint given as <<high 16 bits, low 16 bits>>, when it is
\* below 2^31.
C27_Value(u) == u[1] * 65536 + u[2]

\* C27: for every width and height the texture check accepts and at every
\* mip level, the level size width * height * 4 is at least 4 and at most
\* 1073610756 (so the int multiplication does not overflow), and its
\* conversion to GLuint has the same value.
C27_LevelSizeRange ==
    (fn = "texture" /\ Images # <<>>)
        => /\ parameters.width \in 1..16383
           /\ parameters.height \in 1..16383
           /\ \A k \in 1..Len(Images) :
                /\ LevelSize(Images[k].b, Images[k].c) \in 4..1073610756
                /\ ToGLuint(LevelSize(Images[k].b, Images[k].c))[1] < 32768
                /\ C27_Value(ToGLuint(LevelSize(Images[k].b, Images[k].c)))
                        = LevelSize(Images[k].b, Images[k].c)
           /\ pc = "image_error"
                => /\ size = LevelSize(parameters.width, parameters.height)
                   /\ size \in 4..1073610756
                   /\ C27_Value(ToGLuint(size)) = size

\* The largest accepted texture: 16383 x 16383 x 4 = 1073610756 bytes.
C27_Witness ==
    /\ fn = "texture"
    /\ pc = "image_error"
    /\ parameters.width = 16383
    /\ parameters.height = 16383
    /\ size = 1073610756
    /\ ToGLuint(size) = <<16382, 4>>

\* C28: buffer acquisition with an empty span returns a failure with code 0
\* and issues no generate, bind or upload call; every span of length 1 to
\* the maximum of GLsizeiptr passes the local check (glGenBuffers is
\* called), the check being evaluated for each such length.
C28_EmptySpan ==
    (Returning /\ fn = "buffer")
        => /\ argument.bytes.size = 0
                => /\ retval = error(125, 0)
                   /\ CallsOf(GenerateOps \cup BindOps \cup {"glBufferData"}) = {}
           /\ argument.bytes.size \in 1..SizeiptrMax
                => /\ Cardinality(CallsOf({"glGenBuffers"})) = 1
                   /\ retval.ok \/ retval.line # 125
           /\ \A n \in 0..SizeMax :
                InvalidBufferSize(ToGLsizeiptr(n), n) <=> n \notin 1..SizeiptrMax

\* The call with an empty span has returned the local failure after the
\* reads of the error flag only.
C28_Witness ==
    /\ Returning
    /\ fn = "buffer"
    /\ argument.bytes.size = 0
    /\ retval = error(125, 0)
    /\ log # <<>>
    /\ \A k \in 1..Len(log) : log[k].op = "glGetError"


\* The positions in `sdl` of the calls named `op`.
SdlCalls(op) == {k \in 1..Len(sdl) : sdl[k].op = op}

\* The positions in `sdl` of the calls named `op` that returned `r`.
SdlReturned(op, r) == {k \in SdlCalls(op) : sdl[k].b = r}

\* The teardown calls of main.
TeardownCalls ==
    SdlCalls("SDL_GL_DeleteContext") \cup SdlCalls("SDL_DestroyWindow")
        \cup SdlCalls("SDL_Quit")

\* C29: when main has returned after SDL_Init succeeded, SDL_GL_DeleteContext
\* was called once if the context was created and not at all otherwise,
\* SDL_DestroyWindow was called once if the window was created and not at
\* all otherwise, the context was deleted before the window was destroyed,
\* and SDL_Quit was called exactly once, as the last call of all; when
\* SDL_Init failed, SDL_Quit was not called.
C29_ReverseTeardown ==
    main_pc = "done" =>
        /\ Cardinality(SdlCalls("SDL_Init")) = 1
        /\ SdlReturned("SDL_Init", 0) = {} =>
              /\ TeardownCalls = {}
              /\ returned = "EXIT_FAILURE"
        /\ SdlReturned("SDL_Init", 0) # {} =>
              /\ Cardinality(SdlCalls("SDL_GL_DeleteContext")) =
                    Cardinality(SdlReturned("SDL_GL_CreateContext", TheContext))
              /\ Cardinality(SdlCalls("SDL_DestroyWindow")) =
                    Cardinality(SdlReturned("SDL_CreateWindow", TheWindow))
              /\ Cardinality(SdlCalls("SDL_GL_DeleteContext")) <= 1
              /\ Cardinality(SdlCalls("SDL_DestroyWindow")) <= 1
              /\ \A k \in SdlCalls("SDL_GL_DeleteContext") :
                    /\ sdl[k].a = TheContext
                    /\ \A m \in SdlCalls("SDL_DestroyWindow") : k < m
              /\ \A m \in SdlCalls("SDL_DestroyWindow") : sdl[m].a = TheWindow
              /\ SdlCalls("SDL_Quit") = {Len(sdl)}
              /\ \A k \in TeardownCalls :
                    \A m \in (1..Len(sdl)) \ TeardownCalls : m < k
              /\ (returned = "EXIT_SUCCESS") <=>
                    (frames > 0 /\ ~should_run /\ SdlReturned("glewInit", 0) # {})

\* C29 happens on each of the four exit paths: the window was not created;
\* the context was not created; the bindings were not initialised; the
\* event loop ended.
C29_Witness ==
    /\ main_pc = "done"
    /\ returned = "EXIT_SUCCESS"
    /\ frames = MaxFrames
    /\ SdlCalls("SDL_GL_SwapWindow") # {}
    /\ SdlCalls("SDL_GL_DeleteContext") # {}
    /\ SdlCalls("SDL_DestroyWindow") # {}
    /\ SdlCalls("SDL_Quit") # {}

====
